---- MODULE Spec2Model ----
(***************************************************************************)
(* A model of overlay-rs (src/src/lib.rs): one watcher thread per input    *)
(* directory turns raw notify events into source-relative events and sends *)
(* them over one mpsc channel; the engine thread (Overlay::process_loop)   *)
(* takes them one at a time and keeps, per relative path, a BinaryHeap of  *)
(* the inputs that provide it (input_map) and a hard link in the output    *)
(* directory.                                                              *)
(***************************************************************************)
EXTENDS Integers, Sequences, FiniteSets, TLC

VARIABLES
    files,      \* files[i]: the relative paths that exist under input i's root
    raw,        \* raw[i]: the DebouncedEvents notify has queued for watcher i
    wstate,     \* wstate[i]: state of the watcher thread of input i
    chan,       \* the mpsc channel of EventType, the engine's rx
    input_map,  \* Overlay.input_map: path -> BinaryHeap<Input> (array layout)
    out,        \* the output tree: path -> index of the input it is linked from
    engine,     \* the thread running process_loop
    fsops,      \* the output-tree operations of the engine's last process_event
    reg,        \* reg[i]: paths whose last processed Create/Remove of i was a Create
    ops         \* what the environment has done so far, see Change, Other

vars == <<files, raw, wstate, chan, input_map, out, engine, fsops, reg, ops>>

----------------------------------------------------------------------------
(* Bounds of the model *)

MaxOps == 5
MaxInFlight == 2

Paths == {"a", "b"}

\* A root no input is registered for.
Elsewhere == "elsewhere"

----------------------------------------------------------------------------
(* Registration *)

\* The empty HashMap.
EmptyMap == [p \in {} |-> <<>>]

\* Overlay::new: no inputs, an empty input_map.
new == [inputs |-> <<>>, input_map |-> EmptyMap]

\* Overlay::add_input: index is the position in the vector.
add_input(inps, path, priority) ==
    Append(inps, [index |-> Len(inps), path |-> path, priority |-> priority])

\* The registry the engine runs with: main.rs's two inputs, and a third of
\* the same priority as the second.
inputs ==
    add_input(add_input(add_input(new.inputs, "input1", 0), "input2", 10),
              "input3", 10)

Sources == 0 .. (Len(inputs) - 1)

\* self.inputs[index]
InputAt(index) == inputs[index + 1]

----------------------------------------------------------------------------
(* BinaryHeap<Input>, ordered by impl Ord for Input *)

\* Input::cmp compares the priority alone: a <= b.
le(a, b) == a.priority <= b.priority

swap(data, i, j) == [data EXCEPT ![i + 1] = data[j + 1], ![j + 1] = data[i + 1]]

RECURSIVE sift_up(_, _, _)
sift_up(data, start, pos) ==
    IF pos > start
    THEN LET parent == (pos - 1) \div 2 IN
         IF le(data[pos + 1], data[parent + 1])
         THEN data
         ELSE sift_up(swap(data, pos, parent), start, parent)
    ELSE data

RECURSIVE sift_down_to_bottom(_, _)
sift_down_to_bottom(data, pos) ==
    LET end   == Len(data)
        child == 2 * pos + 1
    IN  IF child <= end - 2
        THEN LET c == IF le(data[child + 1], data[child + 2])
                      THEN child + 1 ELSE child
             IN  sift_down_to_bottom(swap(data, pos, c), c)
        ELSE IF child = end - 1
             THEN sift_up(swap(data, pos, child), 0, child)
             ELSE sift_up(data, 0, pos)

\* A push that leaves the new item at the end of the array.
push_unsifted(data, item) == Append(data, item)

push(data, item) == sift_up(Append(data, item), 0, Len(data))

\* The heap left by BinaryHeap::pop (the popped item is data[1]).
pop(data) ==
    IF Len(data) <= 1
    THEN <<>>
    ELSE sift_down_to_bottom(
             [SubSeq(data, 1, Len(data) - 1) EXCEPT ![1] = data[Len(data)]], 0)

\* BinaryHeap::peek, as an Option: <<>> or <<top>>.
peek(data) == IF data = <<>> THEN <<>> ELSE <<data[1]>>

\* self.input_map.get_mut(&path), as an Option.
get_mut(map, path) == IF path \in DOMAIN map THEN <<map[path]>> ELSE <<>>

\* map[path] = heap, the key inserted when missing.
put(map, path, heap) ==
    [p \in (DOMAIN map) \cup {path} |-> IF p = path THEN heap ELSE map[p]]

----------------------------------------------------------------------------
(* Paths and events *)

\* An absolute path: the root it lies under and the rest.
AbsPath(root, rel) == [root |-> root, rel |-> rel]

\* Path::strip_prefix: Ok(rest) when the path lies under base, else Err.
strip_prefix(path, base) ==
    IF path.root = base
    THEN [ok |-> TRUE, rel |-> path.rel]
    ELSE [ok |-> FALSE, rel |-> ""]

\* Event::from: Err on a path outside the input's root, Ok(None) for the raw
\* events it does not forward, else Ok(Some(EventType)).
Event_from(input, event) ==
    CASE event.kind = "Create" ->
            LET r == strip_prefix(event.path, input.path) IN
            IF r.ok
            THEN [ok |-> TRUE,
                  val |-> <<[index |-> input.index,
                             event |-> [kind |-> "Create", path |-> r.rel]]>>]
            ELSE [ok |-> FALSE, val |-> <<>>]
      [] event.kind = "Remove" ->
            LET r == strip_prefix(event.path, input.path) IN
            IF r.ok
            THEN [ok |-> TRUE,
                  val |-> <<[index |-> input.index,
                             event |-> [kind |-> "Remove", path |-> r.rel]]>>]
            ELSE [ok |-> FALSE, val |-> <<>>]
      [] event.kind = "Rename" ->
            LET f == strip_prefix(event.from, input.path)
                t == strip_prefix(event.to, input.path)
            IN  IF f.ok /\ t.ok
                THEN [ok |-> TRUE,
                      val |-> <<[index |-> input.index,
                                 event |-> [kind |-> "Rename",
                                            from |-> f.rel, to |-> t.rel]]>>]
                ELSE [ok |-> FALSE, val |-> <<>>]
      [] event.kind = "Error" ->
            [ok |-> TRUE,
             val |-> <<[index |-> input.index, event |-> [kind |-> "Error"]]>>]
      [] OTHER -> [ok |-> TRUE, val |-> <<>>]

----------------------------------------------------------------------------
(* Initial state: process_loop has called build_watchers; each spawned      *)
(* thread has created its watcher and watches its root, or one of the two  *)
(* unwraps has panicked.                                                   *)

Init ==
    /\ files = [i \in Sources |-> {}]
    /\ raw = [i \in Sources |-> <<>>]
    /\ wstate \in [Sources -> {"running", "panicked"}]
    /\ chan = <<>>
    /\ input_map = new.input_map
    /\ out = [p \in {} |-> 0]
    /\ engine = "running"
    /\ fsops = <<>>
    /\ reg = [i \in Sources |-> {}]
    /\ ops = 0

----------------------------------------------------------------------------
(* The environment: the input trees change, notify queues raw events *)

\* The events on their way: queued for a watcher or in the channel.
InFlight == Len(chan) + Len(raw[0]) + Len(raw[1]) + Len(raw[2])

\* The process is alive (the main thread neither returned nor panicked) and
\* the model's bounds leave room for one more event.
EnvMay == engine = "running" /\ InFlight < MaxInFlight

\* notify delivers to watcher i while its thread holds the watcher object.
Notify(i, event) ==
    raw' = IF wstate[i] = "running"
           THEN [raw EXCEPT ![i] = Append(@, event)]
           ELSE raw

EnvFrame == UNCHANGED <<wstate, chan, input_map, out, engine, fsops, reg>>

\* The environment's steps are bounded together: a file created or removed
\* counts once, every other step (a rename, a write, an error or a failure
\* of the watch mechanism) counts three times.
Change == ops + 1 <= MaxOps /\ ops' = ops + 1
Other == ops + 3 <= MaxOps /\ ops' = ops + 3

FsCreate(i, p) ==
    /\ EnvMay /\ p \notin files[i]
    /\ files' = [files EXCEPT ![i] = @ \cup {p}]
    /\ Notify(i, [kind |-> "Create", path |-> AbsPath(InputAt(i).path, p)])
    /\ Change
    /\ EnvFrame

FsRemove(i, p) ==
    /\ EnvMay /\ p \in files[i]
    /\ files' = [files EXCEPT ![i] = @ \ {p}]
    /\ Notify(i, [kind |-> "Remove", path |-> AbsPath(InputAt(i).path, p)])
    /\ Change
    /\ EnvFrame

FsRename(i, from, to) ==
    /\ EnvMay /\ from \in files[i] /\ to # from
    /\ files' = [files EXCEPT ![i] = (@ \ {from}) \cup {to}]
    /\ Notify(i, [kind |-> "Rename", from |-> AbsPath(InputAt(i).path, from),
                  to |-> AbsPath(InputAt(i).path, to)])
    /\ Other
    /\ EnvFrame

\* A write to an existing file: a raw event Event::from does not forward.
FsWrite(i, p) ==
    /\ EnvMay /\ p \in files[i]
    /\ Notify(i, [kind |-> "Write", path |-> AbsPath(InputAt(i).path, p)])
    /\ Other
    /\ UNCHANGED files
    /\ EnvFrame

\* notify reports an error of its own (DebouncedEvent::Error).
NotifyError(i) ==
    /\ EnvMay
    /\ Notify(i, [kind |-> "Error"])
    /\ Other
    /\ UNCHANGED files
    /\ EnvFrame

\* notify delivers a path that is not under the watched root.
NotifyForeign(i) ==
    /\ EnvMay
    /\ Notify(i, [kind |-> "Create", path |-> AbsPath(Elsewhere, "x")])
    /\ Other
    /\ UNCHANGED files
    /\ EnvFrame

\* notify's side of watcher i's raw channel goes away: rx.recv() fails once
\* the queue is drained.
NotifyHangup(i) ==
    /\ engine = "running"
    /\ wstate[i] = "running"
    /\ wstate' = [wstate EXCEPT ![i] = "hungup"]
    /\ Other
    /\ UNCHANGED <<files, raw, chan, input_map, out, engine, fsops, reg>>

----------------------------------------------------------------------------
(* The watcher threads: one loop iteration of Input::build_watcher *)

WatcherFrame ==
    UNCHANGED <<files, input_map, out, engine, fsops, reg, ops>>

\* A send that puts the event in front of the events already queued.
send_front(ch, event) == <<event>> \o ch

\* transmiter.send(event): the event goes behind the events already queued.
send(ch, event) == Append(ch, event)

\* rx.recv() is Ok(event): translate and send, or panic on a foreign path.
WatcherRecv(i) ==
    /\ engine = "running"
    /\ wstate[i] \in {"running", "hungup"}
    /\ raw[i] # <<>>
    /\ raw' = [raw EXCEPT ![i] = Tail(@)]
    /\ LET r == Event_from(InputAt(i), Head(raw[i])) IN
       IF ~r.ok
       THEN /\ wstate' = [wstate EXCEPT ![i] = "panicked"]
            /\ chan' = chan
       ELSE /\ wstate' = wstate
            /\ chan' = IF r.val = <<>> THEN chan ELSE send(chan, r.val[1])
    /\ WatcherFrame

\* rx.recv() is Err: send Event::Error(e, None) and break.
WatcherHangup(i) ==
    /\ engine = "running"
    /\ wstate[i] = "hungup"
    /\ raw[i] = <<>>
    /\ chan' = send(chan, [index |-> InputAt(i).index,
                           event |-> [kind |-> "Error"]])
    /\ wstate' = [wstate EXCEPT ![i] = "stopped"]
    /\ UNCHANGED raw
    /\ WatcherFrame

----------------------------------------------------------------------------
(* The engine: Overlay::process_event.  Each arm maps the engine's state   *)
(* [input_map, out, engine, fsops] before the event to its state after it. *)

\* output_file.exists()
exists(tree, path) == path \in DOMAIN tree

\* fs::hard_link(input_file, output_file).is_ok(), input_file being
\* input.path joined with path: the source file must exist and the output
\* path must be free.
hard_link_ok(tree, input, path) ==
    path \in files[input.index] /\ path \notin DOMAIN tree

\* fs::remove_file(&output_file) is Ok: the file must exist.
remove_file_ok(tree, path) == path \in DOMAIN tree

\* A removal that leaves the file where it is.
unlinked_kept(tree, path) == tree

\* The output tree without the file at path, and with path linked from index.
unlinked(tree, path) == [p \in (DOMAIN tree) \ {path} |-> tree[p]]
linked(tree, path, index) ==
    [p \in (DOMAIN tree) \cup {path} |-> IF p = path THEN index ELSE tree[p]]

\* The early return with its comparison reversed.
ignored_reversed(map, input, path) ==
    /\ get_mut(map, path) # <<>>
    /\ peek(map[path]) # <<>>
    /\ input.priority >= peek(map[path])[1].priority

\* The Create arm's early return: the path has a heap whose top has a
\* priority at least the input's.
ignored(map, input, path) ==
    /\ get_mut(map, path) # <<>>
    /\ peek(map[path]) # <<>>
    /\ input.priority <= peek(map[path])[1].priority

\* self.input_map.entry(path).or_insert_with(BinaryHeap::new).push(input)
entry_push(map, path, input) ==
    put(map, path, push(IF path \in DOMAIN map THEN map[path] ELSE <<>>, input))

create_arm(st, index, path) ==
    LET input == InputAt(index) IN
    IF ignored(st.input_map, input, path)
    THEN [st EXCEPT !.input_map = [@ EXCEPT ![path] = push(@, input)]]
    ELSE IF exists(st.out, path) /\ ~remove_file_ok(st.out, path)
    THEN \* fs::remove_file(..).unwrap() panics
         [st EXCEPT !.engine = "panicked", !.fsops = <<"remove_failed">>]
    ELSE LET deleted == IF exists(st.out, path) THEN <<"remove">> ELSE <<>>
             tree    == IF exists(st.out, path)
                        THEN unlinked(st.out, path) ELSE st.out
         IN  IF hard_link_ok(tree, input, path)
             THEN [st EXCEPT !.out = linked(tree, path, index),
                             !.input_map = entry_push(@, path, input),
                             !.fsops = deleted \o <<"link">>]
             ELSE [st EXCEPT !.out = tree,
                             !.fsops = deleted \o <<"link_failed">>]

\* A test that holds for any input as soon as the heap has a top.
is_top_any(map, index, path) ==
    get_mut(map, path) # <<>> /\ peek(map[path]) # <<>>

\* The Remove arm acts only when the event's input is the top of the heap.
is_top(map, index, path) ==
    /\ get_mut(map, path) # <<>>
    /\ peek(map[path]) # <<>>
    /\ index = peek(map[path])[1].index

remove_arm(st, index, path) ==
    IF ~is_top(st.input_map, index, path)
    THEN st
    ELSE LET heap   == pop(st.input_map[path])
             popped == [st EXCEPT !.input_map = [@ EXCEPT ![path] = heap]]
         IN  IF ~remove_file_ok(st.out, path)
             THEN \* fs::remove_file(..).unwrap() panics
                  [popped EXCEPT !.engine = "panicked",
                                 !.fsops = <<"remove_failed">>]
             ELSE LET tree == unlinked(st.out, path) IN
                  IF peek(heap) = <<>>
                  THEN [popped EXCEPT !.out = tree, !.fsops = <<"remove">>]
                  ELSE IF hard_link_ok(tree, peek(heap)[1], path)
                  THEN [popped EXCEPT
                            !.out = linked(tree, path, peek(heap)[1].index),
                            !.fsops = <<"remove", "link">>]
                  ELSE [popped EXCEPT !.out = tree,
                                      !.fsops = <<"remove", "link_failed">>]

\* The Rename arm is empty.
rename_arm(st, index, from, to) == st

\* A catch-all arm that forgets the index.
other_arm_clears(st) == [st EXCEPT !.input_map = EmptyMap]

\* The catch-all arm, taken by Event::Error, is empty.
other_arm(st) == st

process_event(st, ev) ==
    CASE ev.event.kind = "Create" -> create_arm(st, ev.index, ev.event.path)
      [] ev.event.kind = "Remove" -> remove_arm(st, ev.index, ev.event.path)
      [] ev.event.kind = "Rename" ->
            rename_arm(st, ev.index, ev.event.from, ev.event.to)
      [] OTHER -> other_arm(st)

\* What the events processed so far say each input holds: a Create adds the
\* path, a Remove takes it away, a Rename is a Remove of the old path and a
\* Create of the new one.
registered(r, ev) ==
    CASE ev.event.kind = "Create" ->
            [r EXCEPT ![ev.index] = @ \cup {ev.event.path}]
      [] ev.event.kind = "Remove" ->
            [r EXCEPT ![ev.index] = @ \ {ev.event.path}]
      [] ev.event.kind = "Rename" ->
            [r EXCEPT ![ev.index] = (@ \ {ev.event.from}) \cup {ev.event.to}]
      [] OTHER -> r

\* The channel taken as disconnected as soon as one Sender is gone.
Disconnected_any == \E i \in Sources : wstate[i] \in {"stopped", "panicked"}

\* Every Sender is gone: the watcher threads have all ended.
Disconnected == \A i \in Sources : wstate[i] \in {"stopped", "panicked"}

\* The engine's state as process_event finds it.
EngineState ==
    [input_map |-> input_map, out |-> out, engine |-> engine, fsops |-> <<>>]

\* One iteration of process_loop's loop: rx.recv() is Ok(event).
EngineStep ==
    /\ engine = "running"
    /\ chan # <<>>
    /\ chan' = Tail(chan)
    /\ LET st == process_event(EngineState, Head(chan)) IN
       /\ input_map' = st.input_map
       /\ out' = st.out
       /\ engine' = st.engine
       /\ fsops' = st.fsops
    /\ reg' = registered(reg, Head(chan))
    /\ UNCHANGED <<files, raw, wstate, ops>>

\* rx.recv() is Err: the ? operator makes process_loop return the error.
EngineExit ==
    /\ engine = "running"
    /\ chan = <<>>
    /\ Disconnected
    /\ engine' = "returned"
    /\ UNCHANGED <<files, raw, wstate, chan, input_map, out, fsops, reg, ops>>

----------------------------------------------------------------------------

Next ==
    \/ \E i \in Sources, p \in Paths : FsCreate(i, p)
    \/ \E i \in Sources, p \in Paths : FsRemove(i, p)
    \/ \E i \in Sources, from \in Paths, to \in Paths : FsRename(i, from, to)
    \/ \E i \in Sources, p \in Paths : FsWrite(i, p)
    \/ \E i \in Sources : NotifyError(i)
    \/ \E i \in Sources : NotifyForeign(i)
    \/ \E i \in Sources : NotifyHangup(i)
    \/ \E i \in Sources : WatcherRecv(i)
    \/ \E i \in Sources : WatcherHangup(i)
    \/ EngineStep
    \/ EngineExit

Spec == Init /\ [][Next]_vars

\* The engine fed with Create and Remove events alone: every watcher runs,
\* files are created and removed, and nothing else happens.
InitRunning == Init /\ \A i \in Sources : wstate[i] = "running"

NextCreateRemove ==
    \/ \E i \in Sources, p \in Paths : FsCreate(i, p)
    \/ \E i \in Sources, p \in Paths : FsRemove(i, p)
    \/ \E i \in Sources : WatcherRecv(i)
    \/ EngineStep

SpecCreateRemove == InitRunning /\ [][NextCreateRemove]_vars

----------------------------------------------------------------------------
(* Vocabulary of the properties *)

\* The heap of a path, empty when input_map has no entry for it.
Heap(p) == IF p \in DOMAIN input_map THEN input_map[p] ELSE <<>>
HeapNext(p) == IF p \in DOMAIN input_map' THEN input_map'[p] ELSE <<>>

\* The indices of the candidates of a path.
Candidates(p) == {Heap(p)[k].index : k \in 1 .. Len(Heap(p))}
CandidatesNext(p) == {HeapNext(p)[k].index : k \in 1 .. Len(HeapNext(p))}

\* The inputs that hold a path according to the events processed so far.
Holders(r, p) == {i \in Sources : p \in r[i]}

\* The input that should win among a non-empty set H: the highest priority,
\* and among equals the lowest index.
Best(H) ==
    CHOOSE i \in H :
        \A j \in H : \/ InputAt(j).priority < InputAt(i).priority
                     \/ InputAt(j).priority = InputAt(i).priority /\ i <= j

\* The inputs of highest priority among a set H.
Highest(H) == {i \in H : \A j \in H : InputAt(j).priority <= InputAt(i).priority}

\* No event is on its way and the engine is between two events.
Quiescent == InFlight = 0 /\ engine # "panicked"

\* The step is the engine taking the event at the head of the channel.
Processing == engine = "running" /\ chan # <<>> /\ chan' = Tail(chan)
ProcessingKind(kind) == Processing /\ Head(chan).event.kind = kind

\* (C1) In every quiescent state (process_event has returned and no event
\* is on its way), a path with a candidate in input_map has an output file
\* linked from the input on top of its heap, and a path with no candidate
\* has no output file.
C1_CoreConsistency ==
    Quiescent =>
        \A p \in Paths :
            IF Heap(p) # <<>>
            THEN p \in DOMAIN out /\ out[p] = Heap(p)[1].index
            ELSE p \notin DOMAIN out

\* (C2) Once every event sent has been processed, the top of a path's heap
\* is the input of highest priority, and of lowest index among equals, whose
\* last event for the path was a Create not followed by a Remove; the path
\* has no candidate when there is no such input.
C2_FinalWinner ==
    Quiescent =>
        \A p \in Paths :
            IF Holders(reg, p) = {}
            THEN Heap(p) = <<>>
            ELSE Heap(p) # <<>> /\ Heap(p)[1].index = Best(Holders(reg, p))

\* (C3) Whenever a Remove of a path from the input on top of the path's heap
\* is processed, the output file is afterwards linked from an input of
\* highest priority among the other inputs that hold the path, and is absent
\* exactly when no other input holds it.  Stated for the case where the
\* output file was linked from the winner and every input that holds the
\* path has its file, so that no link can fail for a missing file.
C3_Fallback ==
    [][ (/\ ProcessingKind("Remove")
         /\ is_top(input_map, Head(chan).index, Head(chan).event.path)
         /\ Head(chan).event.path \in DOMAIN out
         /\ out[Head(chan).event.path] = Head(chan).index
         /\ \A i \in Sources :
                Head(chan).event.path \in reg'[i]
                    <=> Head(chan).event.path \in files[i])
        => LET p == Head(chan).event.path
               H == Holders(reg', p)
           IN  IF H = {}
               THEN p \notin DOMAIN out'
               ELSE p \in DOMAIN out' /\ out'[p] \in Highest(H) ]_vars

\* (C4) When two inputs of equal priority both hold a path and no input of
\* higher priority does, the top of the path's heap and the input the output
\* file is linked from is the one of lower index, whichever Create came
\* first.
C4_TieBreak ==
    Quiescent =>
        \A p \in Paths : \A i, j \in Holders(reg, p) :
            (/\ i < j
             /\ InputAt(i).priority = InputAt(j).priority
             /\ j \in Highest(Holders(reg, p))
             /\ p \in files[i] /\ p \in files[j])
            => /\ Heap(p) # <<>> /\ Heap(p)[1].index = i
               /\ p \in DOMAIN out /\ out[p] = i

\* (C5) Processing a Create of a path from an input that is already a
\* candidate of the path changes neither input_map nor the output tree.
C5_CreateIdempotent ==
    [][ (/\ ProcessingKind("Create")
         /\ Head(chan).index \in Candidates(Head(chan).event.path))
        => input_map' = input_map /\ out' = out ]_vars

\* (C6) While an input is on top of a path's heap, processing a Create or a
\* Remove of that path from an input of strictly lower priority performs no
\* operation on the output tree, leaves it as it was and leaves the same
\* input on top.
C6_NonWinnerNoOp ==
    [][ (/\ Processing
         /\ Head(chan).event.kind \in {"Create", "Remove"}
         /\ Heap(Head(chan).event.path) # <<>>
         /\ InputAt(Head(chan).index).priority
                < Heap(Head(chan).event.path)[1].priority)
        => /\ fsops' = <<>>
           /\ out' = out
           /\ engine' = "running"
           /\ HeapNext(Head(chan).event.path)[1]
                = Heap(Head(chan).event.path)[1] ]_vars

\* Input 1 is on top of a path's heap with the output linked from it, while
\* input 0, of lower priority, has had a Remove processed (it holds the path
\* no more, yet is still a candidate) or a further Create (it is a candidate
\* twice).
C6_Witness ==
    \E p \in Paths :
        /\ Heap(p) # <<>> /\ Heap(p)[1].index = 1
        /\ p \in DOMAIN out /\ out[p] = 1
        /\ fsops = <<>>
        /\ \/ 0 \in Candidates(p) /\ p \notin reg[0]
           \/ Cardinality({k \in 1 .. Len(Heap(p)) : Heap(p)[k].index = 0}) >= 2

\* (C7) Processing a Rename(from, to) of an input leaves input_map and the
\* output tree as processing Remove(from) and then Create(to) of that input
\* would.
C7_RenameEquivalence ==
    [][ ProcessingKind("Rename")
        => LET ev == Head(chan)
               removed == remove_arm(EngineState, ev.index, ev.event.from)
               created == IF removed.engine = "panicked"
                          THEN removed
                          ELSE create_arm(removed, ev.index, ev.event.to)
           IN  input_map' = created.input_map /\ out' = created.out ]_vars

\* (C8) When a Create is processed and the hard link to the output path
\* fails, the event's input is a candidate of the path afterwards.
C8_LinkFailureRegisters ==
    [][ (/\ ProcessingKind("Create")
         /\ \E k \in 1 .. Len(fsops') : fsops'[k] = "link_failed")
        => Head(chan).index \in CandidatesNext(Head(chan).event.path) ]_vars

\* (C9) process_event returns normally for every event: the engine never
\* panics.
C9_NeverPanics == engine # "panicked"

\* The watcher thread of input i ends in this step.
Dies(i) ==
    wstate[i] \in {"running", "hungup"} /\ wstate'[i] \in {"stopped", "panicked"}

\* (C10) A step in which a watcher thread ends changes neither input_map
\* nor the output tree nor the engine, loses no event of the channel and
\* leaves the other watchers and their queues alone; and the engine does
\* not return while a watcher thread is alive.
C10_AdapterIsolation ==
    [][ /\ (\E i \in Sources : Dies(i))
            => /\ input_map' = input_map /\ out' = out /\ engine' = engine
               /\ Len(chan') >= Len(chan)
               /\ SubSeq(chan', 1, Len(chan)) = chan
               /\ \A j \in Sources :
                      ~Dies(j) => wstate'[j] = wstate[j] /\ raw'[j] = raw[j]
        /\ (\E j \in Sources : wstate[j] \in {"running", "hungup"})
            => engine' # "returned" ]_vars

\* The watcher of input i has stopped, its Error event has been taken from
\* the channel, input i is still a candidate of a path, and the engine's
\* last step linked a path from input j, whose watcher runs.
C10_Witness ==
    \E i, j \in Sources : \E p, q \in Paths :
        /\ wstate[i] = "stopped" /\ wstate[j] = "running"
        /\ engine = "running" /\ chan = <<>>
        /\ i \in Candidates(q)
        /\ fsops = <<"link">> /\ p \in DOMAIN out /\ out[p] = j

----------------------------------------------------------------------------
(* Order of delivery *)

\* The events of the channel ch that input i sent, in the channel's order.
sent_by(ch, i) == SelectSeq(ch, LAMBDA e : e.index = i)

\* The events the watcher of an input will send for the raw events rw it has
\* queued, in order, up to the first one Event::from fails on.
RECURSIVE forwarded(_, _)
forwarded(input, rw) ==
    IF rw = <<>>
    THEN <<>>
    ELSE LET r == Event_from(input, Head(rw)) IN
         IF r.ok THEN r.val \o forwarded(input, Tail(rw)) ELSE <<>>

\* What the engine has yet to take from input i, oldest first: its events in
\* the channel, then those its watcher thread, if alive, will send.
Pending(ch, rw, ws, i) ==
    sent_by(ch, i) \o (IF ws[i] \in {"running", "hungup"}
                       THEN forwarded(InputAt(i), rw[i]) ELSE <<>>)

\* (C11) The events of one input are processed in the order its watcher
\* received them: in every step the pending events of an input stay as they
\* are, or gain one event at the end, or lose their oldest event to the
\* engine, which is processing it.  Nothing is said across inputs.
C11_PerSourceFIFO ==
    [][ \A i \in Sources :
          LET P == Pending(chan, raw, wstate, i)
              Q == Pending(chan', raw', wstate', i)
          IN  \/ Q = P
              \/ Len(Q) = Len(P) + 1 /\ SubSeq(Q, 1, Len(P)) = P
              \/ /\ Processing /\ Head(chan).index = i
                 /\ P # <<>> /\ Head(chan) = Head(P) /\ Q = Tail(P) ]_vars

\* Input i is a candidate of a path (an event of it has been processed) and
\* two further, different events of it wait in the channel.
C11_Witness ==
    \E i \in Sources :
        /\ Len(sent_by(chan, i)) = 2 /\ chan[1] # chan[2]
        /\ \E p \in Paths : i \in Candidates(p)

----------------------------------------------------------------------------
(* Startup *)

\* What an output file left by an earlier run is linked from: no input.
Leftover == Len(inputs)

\* process_loop goes straight from its entry to build_watchers: the inputs
\* may hold files already and the output directory may hold a file of an
\* earlier run, and neither is looked at.
InitStartup ==
    /\ files \in [Sources -> {{}, {"a"}}]
    /\ raw = [i \in Sources |-> <<>>]
    /\ wstate = [i \in Sources |-> "running"]
    /\ chan = <<>>
    /\ input_map = new.input_map
    /\ out \in {[p \in {} |-> 0], [p \in {"b"} |-> Leftover]}
    /\ engine = "running"
    /\ fsops = <<>>
    /\ reg = [i \in Sources |-> {}]
    /\ ops = 0

SpecStartup == InitStartup /\ [][NextCreateRemove]_vars

\* process_loop has built its watchers and no live event has come yet.
AtFirstRecv == ops = 0 /\ engine = "running" /\ chan = <<>>

\* The inputs whose directory holds a path.
OnDisk(p) == {i \in Sources : p \in files[i]}

\* (C12) When process_loop is about to take its first live event, the output
\* tree has, for every path some input holds, a link to an input of highest
\* priority among those that hold it, and has no other path.
C12_StartupReconciled ==
    AtFirstRecv =>
        \A p \in Paths :
            IF OnDisk(p) = {}
            THEN p \notin DOMAIN out
            ELSE p \in DOMAIN out /\ out[p] \in Highest(OnDisk(p))

----------------------------------------------------------------------------
(* Errors and removals *)

\* The watcher of input i takes the raw event at the head of its queue.
Receiving(i) == raw[i] # <<>> /\ raw'[i] = Tail(raw[i])

\* (C13) When a watcher takes a raw event whose path is not under its
\* input's root, it sends an Error event with its input's index into the
\* channel, and input_map and the output tree stay as they are.
C13_ForeignPathSurfaced ==
    [][ \A i \in Sources :
          (Receiving(i) /\ ~Event_from(InputAt(i), Head(raw[i])).ok)
          => /\ chan' = Append(chan, [index |-> i, event |-> [kind |-> "Error"]])
             /\ input_map' = input_map /\ out' = out ]_vars

\* (C14) After a Remove of a path from an input that was a candidate of the
\* path, on top of the heap or not, the input is no candidate of the path.
C14_RemoveUnregisters ==
    [][ (/\ ProcessingKind("Remove")
         /\ Head(chan).index \in Candidates(Head(chan).event.path))
        => Head(chan).index \notin CandidatesNext(Head(chan).event.path) ]_vars

----------------------------------------------------------------------------
(* Taking over *)

\* (C15) When a Create of a path is processed while the path has no
\* candidate or the event's input has a priority strictly above the top's,
\* and the hard link succeeds, then an output file that was there has been
\* removed before the link was made, the output file is linked from the
\* event's input, and that input is on top of the path's heap.
C15_CreateTakesOver ==
    [][ LET p == Head(chan).event.path
            S == Head(chan).index
        IN  (/\ ProcessingKind("Create")
             /\ \/ Heap(p) = <<>>
                \/ InputAt(S).priority > Heap(p)[1].priority
             /\ fsops'[Len(fsops')] = "link")
            => /\ fsops' = IF p \in DOMAIN out
                           THEN <<"remove", "link">> ELSE <<"link">>
               /\ p \in DOMAIN out' /\ out'[p] = S
               /\ HeapNext(p) # <<>> /\ HeapNext(p)[1].index = S ]_vars

\* The engine's last step removed the output file of a path, which was
\* linked from input 0, and linked it from input 1, now on top of the heap
\* with input 0 below it.
C15_Witness ==
    \E p \in Paths :
        /\ fsops = <<"remove", "link">>
        /\ p \in DOMAIN out /\ out[p] = 1
        /\ Heap(p) # <<>> /\ Heap(p)[1].index = 1
        /\ 0 \in Candidates(p) /\ p \in reg[0] /\ p \in reg[1]

----------------------------------------------------------------------------
(* Candidates and redundant events *)

\* How often input i occurs in the heap of path p.
Occurrences(p, i) ==
    Cardinality({k \in 1 .. Len(Heap(p)) : Heap(p)[k].index = i})

\* (C16) In every reachable state every input occurs at most once in the
\* heap of every path.
C16_AtMostOnce ==
    \A p \in Paths : \A i \in Sources : Occurrences(p, i) <= 1

C18_ErrorChangesNothing ==
    [][ ProcessingKind("Error")
        => input_map' = input_map /\ out' = out /\ engine' = engine ]_vars

\* The watcher of input i has stopped and its Error event was the engine's
\* last step, with input i on top of a path's heap and the output linked
\* from it.
C18_Witness ==
    \E i \in Sources : \E p \in Paths :
        /\ wstate[i] = "stopped" /\ InFlight = 0 /\ fsops = <<>>
        /\ ops = 4
        /\ Heap(p) # <<>> /\ Heap(p)[1].index = i
        /\ p \in DOMAIN out /\ out[p] = i

----------------------------------------------------------------------------
(* Lifetime of the engine, and the output tree against the heaps *)

\* The watcher thread of input i has not ended.
Alive(i) == wstate[i] \in {"running", "hungup"}

\* (C19) process_loop goes on taking events as long as a watcher thread is
\* alive: the engine runs while some watcher has not ended, and it has
\* returned only with every watcher ended and the channel empty.
C19_EngineLifetime ==
    /\ (\E i \in Sources : Alive(i)) => engine = "running"
    /\ engine = "returned" => Disconnected /\ chan = <<>>

\* (C20) In every quiescent state a path with an output file has a
\* non-empty heap and the file is linked from the input on top of it.
C20_OutputFollowsTop ==
    Quiescent =>
        \A p \in DOMAIN out : Heap(p) # <<>> /\ out[p] = Heap(p)[1].index

\* A quiescent state after a fallback: the engine's last step removed the
\* output file and linked it from the heap's new top, which has another
\* candidate below it.
C20_Witness ==
    /\ Quiescent /\ fsops = <<"remove", "link">>
    /\ \E p \in DOMAIN out : Len(Heap(p)) >= 2 /\ out[p] = Heap(p)[1].index

====
